---- MODULE Spec2Model ----
(***************************************************************************)
(* Model of scripts/process_sports.py: the translate -> summarise ->       *)
(* record -> export pipeline over a list of team names.                    *)
(*                                                                         *)
(* Python values: a str is a sequence of one-character strings, None is a  *)
(* one-element tuple holding a token that is no character, a dict is a     *)
(* function whose DOMAIN is its set of keys.                               *)
(* The external backends (HTTP API, googletrans, OpenAI, sumy TextRank,    *)
(* the file system) are inputs: each call's outcome is chosen by \E.       *)
(***************************************************************************)
EXTENDS Integers, Sequences, FiniteSets, TLC

VARIABLES
    USE_OPENAI,             \* module global, line 39/45/48
    ai_client,              \* module global, line 40/44: None or the client
    _translator_available,  \* module global, line 32/35
    teams,                  \* the list process_teams iterates over
    idx,                    \* position of the for loop (1-based, next to process)
    results,                \* process_teams' results list
    origin,                 \* history: input index each element of results came from
    fetched,                \* history: per processed name, what the API answered
    log,                    \* history: outbound calls and list appends of the run
    file,                   \* the output file on disk
    pc,                     \* "idle" | "loop" | "save" | "done" | "crashed"
    file0,                  \* history: the output file when the run started
    run,                    \* number of process runs started
    call                    \* last direct call of a utility function (utility specs)

vars == <<USE_OPENAI, ai_client, _translator_available, teams, idx, results,
          origin, fetched, log, file, file0, pc, run, call>>

----------------------------------------------------------------------------
(* Bounds of the model *)

MaxInLen == 2        \* input texts: every string over Chars up to this length
MaxOutLen == 3       \* backend outputs: every string over Chars up to this length
MaxWordLimit == 4    \* word_limit ranges over 1 .. MaxWordLimit, and 50
MaxTeams == 2        \* length of the team list
MaxRuns == 2         \* process runs against the same output file

----------------------------------------------------------------------------
(* Python values and str methods *)

None == <<"None">>
OpenAIClient == <<"OpenAI">>

IsStr(v) == v /= None

\* what a call of an external backend does: it raises, or it returns value
Raises(empty) == [raises |-> TRUE, value |-> empty]
Returns(v) == [raises |-> FALSE, value |-> v]

\* bool(v) for a str, a list or None
Truthy(v) == v /= None /\ v /= <<>>

\* The characters str.isspace() is true of, which str.strip() and
\* str.split() treat as whitespace: U+0009-U+000D, U+001C-U+001F, U+0020,
\* U+0085, U+00A0, U+1680, and U+2000-U+200A, U+2028, U+2029, U+202F,
\* U+205F, U+3000.  The last group cannot be written in a string here and
\* is spelled by its Python escape.
PyWhitespace ==
    {"\t", "\n", "", "\f", "\r", "", "", "", "", " "} \cup
    {"", " ", " "} \cup
    {"\\u2000", "\\u2001", "\\u2002", "\\u2003", "\\u2004", "\\u2005", "\\u2006", "\\u2007", "\\u2008", "\\u2009", "\\u200a", "\\u2028", "\\u2029", "\\u202f", "\\u205f", "\\u3000"}

IsSpace(c) == c \in PyWhitespace

RECURSIVE LStrip(_)
LStrip(s) == IF s = <<>> \/ ~IsSpace(Head(s)) THEN s ELSE LStrip(Tail(s))

RECURSIVE RStrip(_)
RStrip(s) ==
    IF s = <<>> \/ ~IsSpace(s[Len(s)]) THEN s ELSE RStrip(SubSeq(s, 1, Len(s) - 1))

\* str.strip()
Strip(s) == RStrip(LStrip(s))

RECURSIVE WordLen(_)
WordLen(s) == IF s = <<>> \/ IsSpace(Head(s)) THEN 0 ELSE 1 + WordLen(Tail(s))

\* str.split() with no separator: runs of whitespace separate, no empty words
RECURSIVE Split(_)
Split(s) ==
    LET t == LStrip(s) IN
    IF t = <<>> THEN <<>>
    ELSE LET n == WordLen(t) IN <<SubSeq(t, 1, n)>> \o Split(SubSeq(t, n + 1, Len(t)))

\* sep.join(ws)
RECURSIVE Join(_, _)
Join(sep, ws) ==
    IF ws = <<>> THEN <<>>
    ELSE IF Len(ws) = 1 THEN ws[1]
    ELSE ws[1] \o sep \o Join(sep, Tail(ws))

\* xs[:n], Python slice semantics (a negative n counts from the end)
PySliceTo(xs, n) ==
    IF n >= 0 THEN SubSeq(xs, 1, IF n < Len(xs) THEN n ELSE Len(xs))
    ELSE SubSeq(xs, 1, IF Len(xs) + n > 0 THEN Len(xs) + n ELSE 0)

EndsWith(s, suffix) ==
    /\ Len(s) >= Len(suffix)
    /\ SubSeq(s, Len(s) - Len(suffix) + 1, Len(s)) = suffix

\* dict.get(key, default)
Get(d, key, default) == IF key \in DOMAIN d THEN d[key] ELSE default

----------------------------------------------------------------------------
(* Literals of the program *)

ResumenNoDisponible ==
    <<"R","e","s","u","m","e","n"," ","n","o"," ",
      "d","i","s","p","o","n","i","b","l","e">>

Ellipsis == <<".", ".", ".">>

NA == <<"N", "/", "A">>

WORD_LIMIT == 50
SENTENCES_COUNT == 4

----------------------------------------------------------------------------
(* Input domains *)

Chars == {"a", " "}

StrUpTo(n) == UNION {[1..k -> Chars] : k \in 0..n}

\* n words "a" separated by single spaces
RECURSIVE Words(_)
Words(n) ==
    IF n <= 0 THEN <<>> ELSE IF n = 1 THEN <<"a">> ELSE Words(n - 1) \o <<" ", "a">>

\* texts with whitespace other than the space
OtherSpaceTexts ==
    {<<"\r", "\n">>, <<"\f">>, <<"a", "\r", "\n", "a">>, <<"a", "\t", "\r">>}

Texts == StrUpTo(MaxInLen) \cup OtherSpaceTexts

\* what a backend may hand back as text: short strings, a text of exactly
\* WORD_LIMIT words and one of WORD_LIMIT + 1 words
OutStrs ==
    StrUpTo(MaxOutLen) \cup {Words(WORD_LIMIT), Words(WORD_LIMIT + 1)} \cup OtherSpaceTexts

WordLimits == (1 .. MaxWordLimit) \cup {WORD_LIMIT}

\* resp.choices[0].message.content, or the call raising
AIOutcomes == {Returns(v) : v \in OutStrs \cup {None}} \cup {Raises(None)}

\* summarizer(parser.document, sentences_count): at most sentences_count
\* sentences, or the library raising
SentenceLists(sentences_count) ==
    {ss \in {<<>>} \cup {<<s>> : s \in OutStrs}
               \cup {<<s, t>> : s \in StrUpTo(1), t \in StrUpTo(1)}
        : Len(ss) <= sentences_count}

TextRankOutcomes(sentences_count) ==
    {Returns(ss) : ss \in SentenceLists(sentences_count)} \cup {Raises(<<>>)}

\* translator.translate(text, dest).text, or the call raising
GTOutcomes == {Returns(v) : v \in Texts} \cup {Raises(None)}

----------------------------------------------------------------------------
(* Utilities *)

\* mutant: the slice keeps one word too many
truncate_one_more(summary, word_limit) ==
    LET words == Split(summary) IN
    IF Len(words) > word_limit
    THEN [ret |-> Join(<<" ">>, PySliceTo(words, word_limit + 1)) \o Ellipsis,
          truncated |-> TRUE]
    ELSE [ret |-> summary, truncated |-> FALSE]

\* words = s.split(); if len(words) > word_limit: " ".join(words[:word_limit]) + "..."
truncate(summary, word_limit) ==
    LET words == Split(summary) IN
    IF Len(words) > word_limit
    THEN [ret |-> Join(<<" ">>, PySliceTo(words, word_limit)) \o Ellipsis,
          truncated |-> TRUE]
    ELSE [ret |-> summary, truncated |-> FALSE]

\* summarise_text_rank(text, sentences_count, word_limit); tr is what the
\* TextRank summarizer does when called
summarise_text_rank(text, sentences_count, word_limit, tr) ==
    IF ~Truthy(text) \/ ~Truthy(Strip(text))
    THEN [ret |-> ResumenNoDisponible, truncated |-> FALSE, calls |-> <<>>]
    ELSE IF tr.raises
    THEN [ret |-> ResumenNoDisponible, truncated |-> FALSE, calls |-> <<"textrank">>]
    ELSE LET summary_text == Strip(Join(<<" ">>, tr.value))
             t == truncate(summary_text, word_limit)
         IN  [ret |-> t.ret, truncated |-> t.truncated, calls |-> <<"textrank">>]

\* summarise_with_ai(text, word_limit); ai is what the chat completion does
\* when called
summarise_with_ai(text, word_limit, ai) ==
    IF ~USE_OPENAI \/ ai_client = None
    THEN [ret |-> None, truncated |-> FALSE, calls |-> <<>>]
    ELSE IF ~Truthy(text) \/ ~Truthy(Strip(text))
    THEN [ret |-> None, truncated |-> FALSE, calls |-> <<>>]
    ELSE IF ai.raises \/ ~IsStr(ai.value)   \* content None: .strip() raises
    THEN [ret |-> None, truncated |-> FALSE, calls |-> <<"openai.summary">>]
    ELSE LET t == truncate(Strip(ai.value), word_limit)
         IN  [ret |-> t.ret, truncated |-> t.truncated, calls |-> <<"openai.summary">>]

\* mutant: the AI fallback is tried whatever the flag says
ai_translate_always == TRUE

\* `if USE_OPENAI and ai_client`, line 122
ai_translate_enabled == USE_OPENAI /\ Truthy(ai_client)

\* mutant: the AI translation is tried first, googletrans second
translate_ai_first(text, dest, gt, ai) ==
    IF ai_translate_enabled /\ ~ai.raises /\ IsStr(ai.value)
    THEN [ret |-> Strip(ai.value), calls |-> <<"openai.translate">>, raised |-> FALSE]
    ELSE LET first == IF ai_translate_enabled THEN <<"openai.translate">> ELSE <<>> IN
         IF _translator_available
         THEN [ret |-> IF gt.raises THEN text ELSE gt.value,
               calls |-> first \o <<"googletrans">>, raised |-> FALSE]
         ELSE [ret |-> text, calls |-> first, raised |-> FALSE]

\* translate_text past its `if not text` guard, lines 113-143; gt and ai
\* are what googletrans and the chat completion do when called
translate_backends(text, dest, gt, ai) ==
    IF _translator_available /\ ~gt.raises
    THEN [ret |-> gt.value, calls |-> <<"googletrans">>, raised |-> FALSE]
    ELSE LET first == IF _translator_available THEN <<"googletrans">> ELSE <<>> IN
         IF ai_translate_enabled
         THEN IF ~ai.raises /\ IsStr(ai.value)   \* content None: .strip() raises
              THEN [ret |-> Strip(ai.value), calls |-> first \o <<"openai.translate">>,
                    raised |-> FALSE]
              ELSE [ret |-> text, calls |-> first \o <<"openai.translate">>,
                    raised |-> FALSE]
         ELSE [ret |-> text, calls |-> first, raised |-> FALSE]

\* mutant: no guard for the empty text
translate_text_unguarded(text, dest, gt, ai) == translate_backends(text, dest, gt, ai)

\* translate_text(text, dest), lines 109-143
translate_text(text, dest, gt, ai) ==
    IF ~Truthy(text)
    THEN [ret |-> <<>>, calls |-> <<>>, raised |-> FALSE]
    ELSE translate_backends(text, dest, gt, ai)

\* process_teams lines 173-181: the AI summary first, TextRank when it is None
resumen_of(description_es, aiS, tr) ==
    LET a == IF USE_OPENAI
             THEN summarise_with_ai(description_es, WORD_LIMIT, aiS)
             ELSE [ret |-> None, truncated |-> FALSE, calls |-> <<>>]
    IN  IF a.ret = None
        THEN LET r == summarise_text_rank(description_es, SENTENCES_COUNT, WORD_LIMIT, tr)
             IN  [ret |-> r.ret, truncated |-> r.truncated, calls |-> a.calls \o r.calls]
        ELSE a

----------------------------------------------------------------------------
(* JSON values of the API response.  A value that may be null is wrapped:  *)
(* JNull, or J(v) with v a dict (function on its keys) or a list.          *)

JNull == [null |-> TRUE, v |-> <<>>]
J(v) == [null |-> FALSE, v |-> v]

\* bool(j) for a dict or a list that may be None
TruthyDict(j) == ~j.null /\ DOMAIN j.v /= {}
TruthyList(j) == ~j.null /\ Len(j.v) > 0

\* the record's columns, in the order of the dict literal of lines 183-191
Columns == <<"Equipo", "Deporte", "Liga", "Año de fundación", "Estadio",
             "Descripción (es)", "Resumen">>

\* the API key each of the five copied columns is read from, lines 159-163
ApiKey == [c \in {"Equipo", "Deporte", "Liga", "Año de fundación", "Estadio"} |->
             CASE c = "Equipo" -> "strTeam"
               [] c = "Deporte" -> "strSport"
               [] c = "Liga" -> "strLeague"
               [] c = "Año de fundación" -> "intFormedYear"
               [] c = "Estadio" -> "strStadium"]

NoRecord == [c \in {"Equipo", "Deporte", "Liga", "Año de fundación", "Estadio",
                    "Descripción (es)", "Resumen"} |-> None]

\* mutant: the pause is taken on the way out of every iteration
SkippedWithPause == [appended |-> FALSE, rec |-> NoRecord, events |-> <<"get", "sleep">>]

\* an iteration left by `continue`: the request was made, nothing appended
Skipped == [appended |-> FALSE, rec |-> NoRecord, events |-> <<"get">>]

\* mutant: the description is not stripped before the test
has_description_unstripped(description_en) == Truthy(description_en)

\* the negation of line 166, `not description_en or not description_en.strip()`
has_description(description_en) ==
    Truthy(description_en) /\ Truthy(Strip(description_en))

\* One iteration of the for loop of process_teams, lines 150-197.
\* resp is what requests.get / raise_for_status / r.json do; gt, aiT, aiS, tr
\* are what the translation and summary backends do if they are called.
process_team(team, resp, gt, aiT, aiS, tr) ==
    IF resp.raises                   \* connection error, non-2xx status, bad JSON
    THEN Skipped
    ELSE LET data == resp.data IN
    IF ~TruthyDict(data) \/ ~TruthyList(Get(data.v, "teams", JNull))
    THEN Skipped
    ELSE LET team_info == data.v["teams"].v[1]
             description_en == Get(team_info, "strDescriptionEN", None)
         IN
    IF ~has_description(description_en)
    THEN Skipped
    ELSE LET t == translate_text(description_en, <<"e", "s">>, gt, aiT)
             description_es == t.ret
             r == resumen_of(description_es, aiS, tr)
         IN  [appended |-> TRUE,
              rec |-> [c \in DOMAIN NoRecord |->
                         CASE c = "Descripción (es)" -> description_es
                           [] c = "Resumen" -> r.ret
                           [] OTHER -> Get(team_info, ApiKey[c], NA)],
              events |-> <<"get">> \o t.calls \o r.calls \o <<"append", "sleep">>]

----------------------------------------------------------------------------
(* Export *)

Slash == "/"

RECURSIVE RStripSlash(_)
RStripSlash(s) ==
    IF s = <<>> \/ s[Len(s)] /= Slash THEN s ELSE RStripSlash(SubSeq(s, 1, Len(s) - 1))

RECURSIVE LastSlash(_)
LastSlash(s) == IF s = <<>> \/ s[Len(s)] = Slash THEN Len(s) ELSE LastSlash(SubSeq(s, 1, Len(s) - 1))

\* os.path.dirname (posixpath): up to the last slash, trailing slashes
\* dropped unless the head is all slashes
Dirname(path) ==
    LET head == SubSeq(path, 1, LastSlash(path)) IN
    IF RStripSlash(head) = <<>> THEN head ELSE RStripSlash(head)

DEFAULT_PATH ==
    <<"d","a","t","a","/","t","e","a","m","s","_","l","i","s","t",".","c","s","v">>

\* a cell of the CSV: pandas writes a missing value (None) as the empty field
Cell(v) == IF v = None THEN <<>> ELSE v

\* DataFrame(items).to_csv(path, index=False, encoding="utf-8-sig"): the
\* file is opened for writing (truncated), a byte-order mark, the header of
\* the first dict's keys, one row per item
CsvFile(items) ==
    [exists |-> TRUE, bom |-> TRUE, header |-> Columns,
     rows |-> [i \in 1..Len(items) |-> [j \in 1..Len(Columns) |-> Cell(items[i][Columns[j]])]]]

\* what an opened and truncated, but not written, file looks like
TruncatedFile == [exists |-> TRUE, bom |-> FALSE, header |-> <<>>, rows |-> <<>>]

\* the file system's part: does makedirs raise, does to_csv raise, and if
\* to_csv raises, had the file already been opened for writing
FsOutcomes == [makedirs_raises : BOOLEAN, to_csv_raises : BOOLEAN, opened : BOOLEAN]

\* mutant: the file is opened for appending
save_to_csv_append(items, path, fs, old) ==
    IF Len(items) = 0
    THEN [raised |-> FALSE, file |-> old, events |-> <<"nothing to save">>]
    ELSE IF Dirname(path) = <<>> \/ fs.makedirs_raises
    THEN [raised |-> TRUE, file |-> old, events |-> <<"makedirs raised">>]
    ELSE IF fs.to_csv_raises
    THEN [raised |-> FALSE, file |-> old, events |-> <<"makedirs", "to_csv raised">>]
    ELSE [raised |-> FALSE,
          file |-> [CsvFile(items) EXCEPT !.rows = old.rows \o CsvFile(items).rows],
          events |-> <<"makedirs", "to_csv">>]

\* save_to_csv(items, path), lines 200-210, on the file `old`
save_to_csv(items, path, fs, old) ==
    IF Len(items) = 0                \* `not items`, items being a list
    THEN [raised |-> FALSE, file |-> old, events |-> <<"nothing to save">>]
    ELSE IF Dirname(path) = <<>> \/ fs.makedirs_raises   \* makedirs("") raises
    THEN [raised |-> TRUE, file |-> old, events |-> <<"makedirs raised">>]
    ELSE IF fs.to_csv_raises
    THEN [raised |-> FALSE, file |-> IF fs.opened THEN TruncatedFile ELSE old,
          events |-> <<"makedirs", "to_csv raised">>]
    ELSE [raised |-> FALSE, file |-> CsvFile(items), events |-> <<"makedirs", "to_csv">>]

----------------------------------------------------------------------------
(* Module start-up, lines 29-48 *)

\* OPENAI_API_KEY is the stripped environment value; the client exists only
\* when the key is non-empty and the import and constructor did not raise
Startup(envKey, openaiOk, googletransOk) ==
    LET OPENAI_API_KEY == Strip(envKey) IN
    [translator |-> googletransOk,
     use_openai |-> Truthy(OPENAI_API_KEY) /\ openaiOk,
     client     |-> IF Truthy(OPENAI_API_KEY) /\ openaiOk THEN OpenAIClient ELSE None]

EnvKeys == {<<>>, <<" ">>, <<"k">>}

NoCall == [fn |-> "none", text |-> <<>>, word_limit |-> 0, gt |-> Raises(None),
           ai |-> Raises(None), tr |-> Raises(<<>>),
           out |-> [ret |-> None, truncated |-> FALSE, calls |-> <<>>, raised |-> FALSE]]

NoFile == [exists |-> FALSE, bom |-> FALSE, header |-> <<>>, rows |-> <<>>]

\* the globals a process can start with
Startups ==
    {Startup(envKey, openaiOk, googletransOk) :
        envKey \in EnvKeys, openaiOk \in BOOLEAN, googletransOk \in BOOLEAN}

InitGlobals ==
    \E g \in Startups :
        /\ USE_OPENAI = g.use_openai
        /\ ai_client = g.client
        /\ _translator_available = g.translator

\* a process in which the utilities are called directly
InitUtil ==
    /\ InitGlobals
    /\ teams = <<>> /\ idx = 1 /\ results = <<>> /\ origin = <<>> /\ fetched = <<>>
    /\ log = <<>> /\ file = NoFile /\ file0 = NoFile /\ pc = "idle" /\ run = 1
    /\ call = NoCall

pipelineVars == <<USE_OPENAI, ai_client, _translator_available, teams, idx, results,
                  origin, fetched, log, file, file0, pc, run>>

----------------------------------------------------------------------------
(* Direct calls of the utilities *)

CallSummariseTextRank ==
    /\ pc = "idle" /\ call.fn = "none"
    /\ \E text \in Texts, wl \in WordLimits, tr \in TextRankOutcomes(SENTENCES_COUNT) :
         LET r == summarise_text_rank(text, SENTENCES_COUNT, wl, tr) IN
         call' = [NoCall EXCEPT !.fn = "summarise_text_rank", !.text = text,
                                !.word_limit = wl, !.tr = tr,
                                !.out = [ret |-> r.ret, truncated |-> r.truncated,
                                         calls |-> r.calls, raised |-> FALSE]]
    /\ UNCHANGED pipelineVars

CallSummariseWithAI ==
    /\ pc = "idle" /\ call.fn = "none"
    /\ \E text \in Texts, wl \in WordLimits, ai \in AIOutcomes :
         LET r == summarise_with_ai(text, wl, ai) IN
         call' = [NoCall EXCEPT !.fn = "summarise_with_ai", !.text = text,
                                !.word_limit = wl, !.ai = ai,
                                !.out = [ret |-> r.ret, truncated |-> r.truncated,
                                         calls |-> r.calls, raised |-> FALSE]]
    /\ UNCHANGED pipelineVars

CallResumen ==
    /\ pc = "idle" /\ call.fn = "none"
    /\ \E text \in Texts, ai \in AIOutcomes, tr \in TextRankOutcomes(SENTENCES_COUNT) :
         LET r == resumen_of(text, ai, tr) IN
         call' = [NoCall EXCEPT !.fn = "resumen", !.text = text,
                                !.word_limit = WORD_LIMIT, !.ai = ai, !.tr = tr,
                                !.out = [ret |-> r.ret, truncated |-> r.truncated,
                                         calls |-> r.calls, raised |-> FALSE]]
    /\ UNCHANGED pipelineVars

CallTranslate ==
    /\ pc = "idle" /\ call.fn = "none"
    /\ \E text \in Texts, gt \in GTOutcomes, ai \in AIOutcomes :
         LET r == translate_text(text, <<"e", "s">>, gt, ai) IN
         call' = [NoCall EXCEPT !.fn = "translate_text", !.text = text,
                                !.gt = gt, !.ai = ai,
                                !.out = [ret |-> r.ret, truncated |-> FALSE,
                                         calls |-> r.calls, raised |-> r.raised]]
    /\ UNCHANGED pipelineVars

----------------------------------------------------------------------------
(* The program: __main__, lines 214-222 *)

TEAMS == <<"Arsenal", "Chelsea", "Liverpool", "Manchester United", "Manchester City">>

TeamInfos(fieldSets, descriptions) ==
    UNION {
      { [k \in present \cup nulls \cup {"strDescriptionEN"} |->
           IF k = "strDescriptionEN" THEN d
           ELSE IF k \in nulls THEN None
           ELSE <<k>>] : d \in descriptions } \cup
      { [k \in present \cup nulls |-> IF k \in nulls THEN None ELSE <<k>>] }
      : <<present, nulls>> \in fieldSets }

\* API answers: a failed request, JSON null, {}, {"teams": null},
\* {"teams": []} and {"teams": [team_info]}
Responses(fieldSets, descriptions) ==
    {[raises |-> TRUE, data |-> JNull]} \cup
    {[raises |-> FALSE, data |-> d] :
        d \in {JNull, J(<<>>), J([teams |-> JNull]), J([teams |-> J(<<>>)])} \cup
              {J([teams |-> J(<<info>>)]) : info \in TeamInfos(fieldSets, descriptions)}}

AllFields == {"strTeam", "strSport", "strLeague", "intFormedYear", "strStadium"}

\* which of the five fields the API supplies, and which of those are null
FieldSets == {<<AllFields, {}>>, <<{"strTeam", "strSport", "strLeague"}, {"strSport"}>>}

\* strDescriptionEN values: null, blank (spaces, a bare line end), a text
Descriptions == {None, <<" ">>, <<"\r", "\n">>, <<"a", " ", "a">>}

PipeGT == {Raises(None), Returns(<<>>), Returns(<<"b", " ", "b">>)}
PipeAI == {Raises(None), Returns(<<>>), Returns(<<" ", "c">>)}
PipeTR == {Raises(<<>>), Returns(<<<<"d">>, <<"e">>>>)}

InitRun(teamLists) ==
    /\ InitGlobals
    /\ teams \in teamLists
    /\ idx = 1 /\ results = <<>> /\ origin = <<>> /\ fetched = <<>> /\ log = <<>>
    /\ file = NoFile /\ file0 = NoFile /\ pc = "loop" /\ run = 1
    /\ call = NoCall

TeamLists == {SubSeq(TEAMS, 1, n) : n \in 0..MaxTeams}

Init == InitRun(TeamLists)

\* The backends are called only for a team that is not skipped: for a
\* skipped team one outcome stands for all of them.
IfReached(resp, outcomes) ==
    IF process_team("", resp, Raises(None), Raises(None), Raises(None), Raises(<<>>)).appended
    THEN outcomes
    ELSE {CHOOSE o \in outcomes : TRUE}

\* one iteration of `for team in teams`
ProcessTeam(responses, gts, ais, trs) ==
    /\ pc = "loop" /\ idx <= Len(teams)
    /\ \E resp \in responses :
       \E gt \in IfReached(resp, gts), aiT \in IfReached(resp, ais),
          aiS \in IfReached(resp, ais), tr \in IfReached(resp, trs) :
         LET r == process_team(teams[idx], resp, gt, aiT, aiS, tr) IN
         /\ results' = IF r.appended THEN Append(results, r.rec) ELSE results
         /\ origin' = IF r.appended THEN Append(origin, idx) ELSE origin
         /\ fetched' = Append(fetched, resp)
         /\ log' = log \o r.events
    /\ idx' = idx + 1
    /\ UNCHANGED <<USE_OPENAI, ai_client, _translator_available, teams, file, file0,
                   pc, run, call>>

\* process_teams returns and save_to_csv(items) runs with the default path
SaveToCsv ==
    /\ pc = "loop" /\ idx > Len(teams)
    /\ \E fs \in FsOutcomes :
         LET s == save_to_csv(results, DEFAULT_PATH, fs, file) IN
         /\ file' = s.file
         /\ log' = log \o s.events
         /\ pc' = IF s.raised THEN "crashed" ELSE "done"
    /\ UNCHANGED <<USE_OPENAI, ai_client, _translator_available, teams, idx, results,
                   origin, fetched, file0, run, call>>

\* the program is started again, against the file the earlier runs left
Rerun(teamLists) ==
    /\ pc \in {"done", "crashed"} /\ run < MaxRuns
    /\ \E g \in Startups :
         /\ USE_OPENAI' = g.use_openai
         /\ ai_client' = g.client
         /\ _translator_available' = g.translator
    /\ teams' \in teamLists
    /\ idx' = 1 /\ results' = <<>> /\ origin' = <<>> /\ fetched' = <<>> /\ log' = <<>>
    /\ file0' = file /\ pc' = "loop" /\ run' = run + 1
    /\ UNCHANGED <<file, call>>

Next ==
    \/ ProcessTeam(Responses(FieldSets, Descriptions), PipeGT, PipeAI, PipeTR)
    \/ SaveToCsv

Spec == Init /\ [][Next]_vars

\* repeated runs, over fewer API answers and backend outcomes
RunResponses ==
    {r \in Responses({<<AllFields, {}>>}, {<<"a">>}) :
        r.raises \/ (~r.data.null /\ DOMAIN r.data.v /= {} /\ ~r.data.v["teams"].null)}

NextRuns ==
    \/ ProcessTeam(RunResponses, {Returns(<<"b">>)}, {Raises(None), Returns(<<"c">>)},
                   {Returns(<<<<"d">>>>)})
    \/ SaveToCsv
    \/ Rerun(TeamLists)

SpecRuns == InitRun(TeamLists) /\ [][NextRuns]_vars

NextSummarise == CallSummariseTextRank \/ CallSummariseWithAI \/ CallResumen

SpecSummarise == InitUtil /\ [][NextSummarise]_vars

NextTranslate == CallTranslate

SpecTranslate == InitUtil /\ [][NextTranslate]_vars

----------------------------------------------------------------------------
(* Claims *)

WordCount(s) == Len(Split(s))

Count(seq, e) == Cardinality({k \in DOMAIN seq : seq[k] = e})

LastEvent == IF log = <<>> THEN "" ELSE log[Len(log)]

IsBlank(s) == IsStr(s) /\ Strip(s) = <<>>

SummaryCall == call.fn \in {"summarise_text_rank", "summarise_with_ai", "resumen"}

\* C1 as stated: whatever the text, the word limit and the backends do, a
\* returned summary has at most word_limit words, and a truncated one ends
\* with "...".
C1_AnyLimit ==
    (SummaryCall /\ IsStr(call.out.ret)) =>
        /\ WordCount(call.out.ret) <= call.word_limit
        /\ call.out.truncated => EndsWith(call.out.ret, Ellipsis)

\* C1 amended: for every positive word limit a returned summary is the
\* literal "Resumen no disponible" (three words, never cut) or has at most
\* word_limit words, so the cap holds for every return when word_limit >= 3;
\* a truncated summary ends with "...".
C1_CapExceptLiteral ==
    (SummaryCall /\ IsStr(call.out.ret)) =>
        /\ \/ call.out.ret = ResumenNoDisponible
           \/ WordCount(call.out.ret) <= call.word_limit
        /\ call.word_limit >= 3 => WordCount(call.out.ret) <= call.word_limit
        /\ call.out.truncated => EndsWith(call.out.ret, Ellipsis)

\* a summary of WORD_LIMIT + 1 words was cut to WORD_LIMIT words
C1_Witness ==
    /\ call.fn = "summarise_with_ai" /\ call.word_limit = WORD_LIMIT
    /\ ~call.ai.raises /\ IsStr(call.ai.value) /\ WordCount(call.ai.value) = WORD_LIMIT + 1
    /\ call.out.truncated /\ WordCount(call.out.ret) = WORD_LIMIT

\* C2 as stated: the summary recorded for a team is never the empty string
\* (an AI step that yields empty text falls through to the extractive
\* summarizer, and nothing from both gives "Resumen no disponible").
C2_ResumenNeverEmpty ==
    \A j \in 1..Len(results) : results[j]["Resumen"] /= <<>>

\* C3 as stated: translate_text of an empty or whitespace-only text returns
\* "" and calls no backend.
C3_BlankShortCircuits ==
    (call.fn = "translate_text" /\ IsBlank(call.text)) =>
        call.out.ret = <<>> /\ call.out.calls = <<>>

\* C3 amended: translate_text of the empty text returns "" and calls no
\* backend; a non-empty whitespace-only text is not short-circuited: it is
\* sent to the first available backend like any other text.
C3_EmptyShortCircuits ==
    call.fn = "translate_text" =>
        /\ call.text = <<>> => call.out.ret = <<>> /\ call.out.calls = <<>>
        /\ (IsBlank(call.text) /\ call.text /= <<>>
              /\ (_translator_available \/ USE_OPENAI)) => call.out.calls /= <<>>

C3_Witness ==
    /\ call.fn = "translate_text" /\ call.text = <<>>
    /\ _translator_available /\ USE_OPENAI /\ call.out.calls = <<>>

AITranslateOk == ~call.ai.raises /\ IsStr(call.ai.value)

\* C4: translate_text calls googletrans first and the AI only when
\* googletrans is unavailable or raised, each at most once, never raises,
\* returns the first success, and returns the input when nothing succeeded.
C4_StrictOrder ==
    (call.fn = "translate_text" /\ IsStr(call.text)) =>
        /\ call.out.calls \in {<<>>, <<"googletrans">>, <<"openai.translate">>,
                               <<"googletrans", "openai.translate">>}
        /\ Count(call.out.calls, "openai.translate") = 1 =>
              ~_translator_available \/ call.gt.raises
        /\ ~call.out.raised
        /\ (call.out.calls = <<"googletrans">> /\ ~call.gt.raises) =>
              call.out.ret = call.gt.value
        /\ (Count(call.out.calls, "openai.translate") = 1 /\ AITranslateOk) =>
              call.out.ret = Strip(call.ai.value)
        /\ ((~_translator_available \/ call.gt.raises)
              /\ (~USE_OPENAI \/ ~AITranslateOk)) => call.out.ret = call.text
        /\ (call.text /= <<>> /\ _translator_available) =>
              Count(call.out.calls, "googletrans") = 1

\* both strategies were tried, both raised, the input came back
C4_Witness ==
    /\ call.fn = "translate_text" /\ call.text = <<"a", "a">>
    /\ call.out.calls = <<"googletrans", "openai.translate">>
    /\ call.gt.raises /\ call.ai.raises /\ call.out.ret = call.text

\* the claim's "fetch succeeded": a 2xx answer with a matching team whose
\* English description is not blank
FetchSucceeded(resp) ==
    /\ ~resp.raises
    /\ ~resp.data.null /\ "teams" \in DOMAIN resp.data.v
    /\ ~resp.data.v["teams"].null /\ Len(resp.data.v["teams"].v) > 0
    /\ LET info == resp.data.v["teams"].v[1] IN
          /\ "strDescriptionEN" \in DOMAIN info
          /\ IsStr(info["strDescriptionEN"])
          /\ Strip(info["strDescriptionEN"]) /= <<>>

\* C5: the records are, in input order, exactly the names whose fetch
\* succeeded, one each, whatever the translation and summary backends did;
\* every name is processed.
C5_RecordsAreFetchedNames ==
    /\ Len(fetched) = idx - 1
    /\ origin = SelectSeq([i \in 1..Len(fetched) |-> i],
                          LAMBDA i : FetchSucceeded(fetched[i]))
    /\ Len(results) = Len(origin)
    /\ pc \in {"done", "crashed"} => idx = Len(teams) + 1

\* the first name was skipped, the second recorded although its translation
\* backend raised
C5_Witness ==
    /\ Len(teams) = 2 /\ idx = 3
    /\ ~FetchSucceeded(fetched[1]) /\ FetchSucceeded(fetched[2])
    /\ origin = <<2>> /\ Len(results) = 1
    /\ _translator_available /\ Count(log, "googletrans") = 1
    /\ results[1]["Descripción (es)"] = fetched[2].data.v["teams"].v[1]["strDescriptionEN"]

\* C6 as stated: each of the five copied columns of a record equals the
\* API's value, and is "N/A" when the API's value is absent (key missing or
\* value null).
C6_FieldsOrNA ==
    \A j \in 1..Len(results) :
        LET info == fetched[origin[j]].data.v["teams"].v[1] IN
        \A c \in DOMAIN ApiKey :
            results[j][c] = IF ApiKey[c] \in DOMAIN info /\ info[ApiKey[c]] /= None
                            THEN info[ApiKey[c]]
                            ELSE NA

\* C7 as stated: no exception leaves save_to_csv.
C7_ExportNeverRaises == pc /= "crashed"

\* C8 as stated: after a run whose export did not fail, the file's rows are
\* the records of that run.
C8_FileIsLastRun ==
    (pc = "done" /\ LastEvent /= "to_csv raised") => file.rows = CsvFile(results).rows

\* C8 amended: after a run that produced at least one record and whose
\* write succeeded, the file is exactly that run's records (nothing of an
\* earlier run survives); a run that produced no record leaves the file as
\* it found it.
C8_FileIsLastNonEmptyRun ==
    /\ (pc = "done" /\ LastEvent = "to_csv") => file = CsvFile(results)
    /\ (pc \in {"done", "crashed"} /\ results = <<>>) =>
          file = file0 /\ LastEvent = "nothing to save"

\* a second run with one record replaced the two rows of the first
C8_Witness ==
    /\ run = 2 /\ pc = "done" /\ LastEvent = "to_csv"
    /\ Len(file0.rows) = 2 /\ Len(results) = 1 /\ Len(file.rows) = 1

\* C9: with the AI flag off no AI call is issued, for summaries or for
\* translations, and the flags do not change during the run.
C9_NoAICallWhenOff ==
    /\ [](~USE_OPENAI =>
            /\ ai_client = None
            /\ Count(log, "openai.summary") = 0
            /\ Count(log, "openai.translate") = 0)
    /\ [][USE_OPENAI' = USE_OPENAI /\ ai_client' = ai_client]_vars

\* the flag is off, googletrans raised and the summary came from TextRank
C9_Witness ==
    /\ ~USE_OPENAI /\ _translator_available /\ Len(results) = 1
    /\ results[1]["Descripción (es)"] = <<"a", " ", "a">>
    /\ Count(log, "googletrans") = 1 /\ Count(log, "textrank") = 1

\* C10: the pause is taken once per recorded team, right after the append
\* and before anything else, and never for a skipped team.
C10_PauseAfterEachRecord ==
    /\ \A k \in DOMAIN log : log[k] = "append" => k < Len(log) /\ log[k + 1] = "sleep"
    /\ \A k \in DOMAIN log : log[k] = "sleep" => k > 1 /\ log[k - 1] = "append"
    /\ \A k \in DOMAIN log :
          (log[k] = "sleep" /\ k < Len(log)) =>
              log[k + 1] \in {"get", "makedirs", "makedirs raised"}
    /\ Count(log, "sleep") = Len(results)
    /\ Count(log, "append") = Len(results)
    /\ Count(log, "get") = idx - 1

\* a recorded team, then a skipped one: one pause, and the log ends with
\* the second request
C10_Witness ==
    /\ idx = 3 /\ Len(results) = 1 /\ origin = <<1>>
    /\ Count(log, "sleep") = 1 /\ LastEvent = "get"

====
